---- MODULE Spec2Model ----
(***************************************************************************)
(* A model of the retrieval-and-answer core of the RAG service:            *)
(*   src/rag.py        ingestion, chunk index, lexical retrieval, the      *)
(*                     free-mode answer synthesizer, init and queries      *)
(*   src/main.py       the startup hook that warms the index               *)
(*   src/endpoints.py  the HTTP handler that calls the core                *)
(*                                                                         *)
(* Text is modelled character by character: a string is a sequence of      *)
(* one-symbol strings.  Two symbols stand for a longer literal: "<P>" is   *)
(* the text `SECTION: PROMPTS` and "<S>" is `SECTION: <another label>`;     *)
(* ELLIPSIS is the single character U+2026.                                *)
(*                                                                         *)
(* Scores are exact rationals <<numerator, denominator>>, compared by      *)
(* cross multiplication, so that no float rounding is assumed away.        *)
(***************************************************************************)
EXTENDS Integers, Sequences, FiniteSets, TLC

VARIABLES
    USE_OPENAI,     \* rag.py:27-38  mode switch, fixed once the module is imported
    FAISS_OK,       \* rag.py:32-36  whether the FAISS import succeeded
    files,          \* the document directory _DOCS_DIR: file name -> content
    _INDEX_READY,    \* rag.py:48     _INDEX_READY
    _free_chunks,    \* rag.py:55     _free_chunks, a list of <<path, chunk text>>
    _vectorstore,    \* rag.py:52     _vectorstore
    _embeddings,     \* rag.py:51     _embeddings
    lifespan,       \* main.py:35-57 position of the startup hook
    reqs,           \* one record per in-flight or finished query call
    stats,          \* history: how often each part of the build ran
    arg,            \* input of the function under check (function specifications)
    out,            \* its result
    pc              \* "call" before the function ran, "done" after

coreVars == <<USE_OPENAI, FAISS_OK, files, _INDEX_READY, _free_chunks, _vectorstore,
              _embeddings, lifespan, reqs, stats>>
fnVars == <<arg, out, pc>>
vars == <<USE_OPENAI, FAISS_OK, files, _INDEX_READY, _free_chunks, _vectorstore,
          _embeddings, lifespan, reqs, stats, arg, out, pc>>

-----------------------------------------------------------------------------
(* Characters and strings                                                  *)

LowerLetters == <<"a","b","c","d","e","f","g","h","i","j","k","l","m",
                  "n","o","p","q","r","s","t","u","v","w","x","y","z">>
UpperLetters == <<"A","B","C","D","E","F","G","H","I","J","K","L","M",
                  "N","O","P","Q","R","S","T","U","V","W","X","Y","Z">>
Digits == {"0","1","2","3","4","5","6","7","8","9"}

Range(s) == {s[i] : i \in DOMAIN s}

\* str.lower() on one character
LowerChar(c) ==
    IF c \in Range(UpperLetters)
    THEN LowerLetters[CHOOSE i \in DOMAIN UpperLetters : UpperLetters[i] = c]
    ELSE c

\* str.lower()
Lower(s) == [i \in DOMAIN s |-> LowerChar(s[i])]

\* \s of the regular expressions and of str.strip()
IsSpace(c) == c \in {" ", "\n", "\t"}

\* [.!?] of _SENT_SPLIT_RE
IsSentenceEnd(c) == c \in {".", "!", "?"}

\* [a-zA-Z0-9'] of _simple_tokenize; the two header symbols are words too
IsTokenChar(c) ==
    \/ c \in Range(LowerLetters) \/ c \in Range(UpperLetters)
    \/ c \in Digits \/ c = "'" \/ c \in {"<P>", "<S>"}

Min(a, b) == IF a < b THEN a ELSE b
Max(a, b) == IF a > b THEN a ELSE b

\* s[:n] of Python, for any integer n
PyPrefix(s, n) ==
    IF n >= 0 THEN SubSeq(s, 1, Min(n, Len(s)))
    ELSE SubSeq(s, 1, Max(Len(s) + n, 0))

\* str.rstrip()
RECURSIVE RStrip(_)
RStrip(s) ==
    IF s # <<>> /\ IsSpace(s[Len(s)]) THEN RStrip(SubSeq(s, 1, Len(s) - 1)) ELSE s

\* str.lstrip()
RECURSIVE LStrip(_)
LStrip(s) ==
    IF s # <<>> /\ IsSpace(s[1]) THEN LStrip(SubSeq(s, 2, Len(s))) ELSE s

\* str.strip()
Strip(s) == LStrip(RStrip(s))

\* " ".join(parts)
RECURSIVE JoinSpace(_)
JoinSpace(parts) ==
    IF parts = <<>> THEN <<>>
    ELSE IF Len(parts) = 1 THEN parts[1]
    ELSE parts[1] \o <<" ">> \o JoinSpace(Tail(parts))

\* `w in s` for strings
IsSubstring(w, s) ==
    \E i \in 0..(Len(s) - Len(w)) : SubSeq(s, i + 1, i + Len(w)) = w

-----------------------------------------------------------------------------
(* Tokens and the Jaccard score (rag.py:130-138)                           *)

RECURSIVE TokenizeFrom(_, _, _, _)
TokenizeFrom(s, i, cur, acc) ==
    IF i > Len(s) THEN (IF cur = <<>> THEN acc ELSE Append(acc, cur))
    ELSE IF IsTokenChar(s[i]) THEN TokenizeFrom(s, i + 1, Append(cur, s[i]), acc)
    ELSE TokenizeFrom(s, i + 1, <<>>, IF cur = <<>> THEN acc ELSE Append(acc, cur))

\* re.findall(r"[a-zA-Z0-9']+", text.lower()): the maximal runs of token characters
_simple_tokenize(text) == TokenizeFrom(Lower(text), 1, <<>>, <<>>)

\* set(_simple_tokenize(text))
TokenSet(text) == Range(_simple_tokenize(text))

ZeroScore == <<0, 1>>

\* a < b for rationals with positive denominators
ScoreLess(a, b) == a[1] * b[2] < b[1] * a[2]
ScoreEq(a, b) == a[1] * b[2] = b[1] * a[2]

keyword_overlap_score_by_query(query, text) ==
    LET q == TokenSet(query)
        t == TokenSet(text)
    IN  IF q = {} \/ t = {} THEN ZeroScore
        ELSE <<Cardinality(q \cap t), Cardinality(q)>>

\* 0.0 if not q or not t else len(q & t) / len(q | t)
_keyword_overlap_score(query, text) ==
    LET q == TokenSet(query)
        t == TokenSet(text)
    IN  IF q = {} \/ t = {} THEN ZeroScore
        ELSE <<Cardinality(q \cap t), Cardinality(q \cup t)>>

\* round(sc, 4), as the integer sc * 10000 rounded half to even
Round4(sc) ==
    LET n == sc[1] * 10000
        q == n \div sc[2]
        r == n % sc[2]
    IN  IF 2 * r < sc[2] THEN q
        ELSE IF 2 * r > sc[2] THEN q + 1
        ELSE IF q % 2 = 0 THEN q ELSE q + 1

-----------------------------------------------------------------------------
(* Sorting (rag.py:179 and rag.py:255)                                     *)

\* An insertion that puts x in front of the items of its own score
InsertBeforeTies(sorted, x) ==
    LET n == Cardinality({i \in DOMAIN sorted : ScoreLess(x.score, sorted[i].score)})
    IN  SubSeq(sorted, 1, n) \o <<x>> \o SubSeq(sorted, n + 1, Len(sorted))

\* One step of list.sort(key=score, reverse=True): Python's sort is stable and
\* stays stable under reverse=True, so x goes behind every item scoring >= x.
InsertStable(sorted, x) ==
    LET n == Cardinality({i \in DOMAIN sorted : ~ScoreLess(sorted[i].score, x.score)})
    IN  SubSeq(sorted, 1, n) \o <<x>> \o SubSeq(sorted, n + 1, Len(sorted))

\* rag.py:179 left out: the candidates stay in hit order
Unsorted(items) == items

RECURSIVE SortByScoreDesc(_)
SortByScoreDesc(items) ==
    IF items = <<>> THEN <<>>
    ELSE InsertStable(SortByScoreDesc(SubSeq(items, 1, Len(items) - 1)), items[Len(items)])

-----------------------------------------------------------------------------
(* Free-mode sentence selection (rag.py:143-194)                           *)

SENTINEL == <<"I", " ", "c", "a", "n", "n", "o", "t", " ", "f", "i", "n", "d", " ",
              "t", "h", "i", "s", " ", "i", "n", " ", "t", "h", "e", " ",
              "d", "o", "c", "u", "m", "e", "n", "t", "s", ".">>

ELLIPSIS == "<ellipsis>"

SentenceCap == 50
HitsExamined == 5
PenaltyScale == 100000

\* floor(PenaltyScale / (1 + log2(1 + n))) for n = 0..300, the lengths a sentence of
\* a 300-character snippet can have
PenaltyTable == <<
    100000, 50000, 38685, 33333, 30102, 27894, 26264, 25000, 23981, 23137, 22424, 21810,
    21274, 20801, 20379, 20000, 19656, 19342, 19055, 18790, 18544, 18316, 18104, 17905,
    17718, 17542, 17376, 17219, 17070, 16929, 16794, 16666, 16544, 16427, 16315, 16207,
    16104, 16005, 15909, 15817, 15729, 15643, 15561, 15481, 15403, 15329, 15256, 15186,
    15117, 15051, 14987, 14924, 14863, 14804, 14746, 14689, 14635, 14581, 14529, 14478,
    14428, 14379, 14332, 14285, 14240, 14195, 14152, 14109, 14067, 14026, 13986, 13947,
    13908, 13870, 13833, 13797, 13761, 13726, 13691, 13657, 13624, 13591, 13559, 13527,
    13496, 13465, 13435, 13405, 13376, 13347, 13319, 13291, 13264, 13236, 13210, 13183,
    13158, 13132, 13107, 13082, 13057, 13033, 13009, 12986, 12963, 12940, 12917, 12895,
    12873, 12851, 12829, 12808, 12787, 12766, 12746, 12725, 12705, 12686, 12666, 12647,
    12628, 12609, 12590, 12571, 12553, 12535, 12517, 12500, 12482, 12465, 12447, 12431,
    12414, 12397, 12381, 12364, 12348, 12332, 12316, 12301, 12285, 12270, 12255, 12240,
    12225, 12210, 12195, 12181, 12166, 12152, 12138, 12124, 12110, 12096, 12082, 12069,
    12056, 12042, 12029, 12016, 12003, 11990, 11977, 11965, 11952, 11940, 11927, 11915,
    11903, 11891, 11879, 11867, 11855, 11844, 11832, 11821, 11809, 11798, 11787, 11775,
    11764, 11753, 11743, 11732, 11721, 11710, 11700, 11689, 11679, 11668, 11658, 11648,
    11638, 11628, 11618, 11608, 11598, 11588, 11578, 11568, 11559, 11549, 11540, 11530,
    11521, 11512, 11502, 11493, 11484, 11475, 11466, 11457, 11448, 11439, 11430, 11422,
    11413, 11404, 11396, 11387, 11379, 11370, 11362, 11354, 11345, 11337, 11329, 11321,
    11313, 11305, 11297, 11289, 11281, 11273, 11265, 11257, 11250, 11242, 11234, 11227,
    11219, 11212, 11204, 11197, 11189, 11182, 11175, 11167, 11160, 11153, 11146, 11139,
    11132, 11125, 11118, 11111, 11104, 11097, 11090, 11083, 11076, 11070, 11063, 11056,
    11049, 11043, 11036, 11030, 11023, 11017, 11010, 11004, 10997, 10991, 10985, 10978,
    10972, 10966, 10959, 10953, 10947, 10941, 10935, 10929, 10923, 10917, 10911, 10905,
    10899, 10893, 10887, 10881, 10875, 10869, 10864, 10858, 10852, 10846, 10841, 10835,
    10829>>

\* 1.0 / (1.0 + math.log2(1 + len(sent))), scaled by PenaltyScale
LengthPenalty(n) == PenaltyTable[Min(n, Len(PenaltyTable) - 1) + 1]

\* the index of the first non-space character at or after i, Len(s) + 1 if none
RECURSIVE SkipSpaces(_, _)
SkipSpaces(s, i) ==
    IF i <= Len(s) /\ IsSpace(s[i]) THEN SkipSpaces(s, i + 1) ELSE i

\* _SENT_SPLIT_RE.split(text): cut at every run of white space that follows . ! or ?
RECURSIVE SplitFrom(_, _, _, _)
SplitFrom(s, i, cur, acc) ==
    IF i > Len(s) THEN Append(acc, cur)
    ELSE IF IsSpace(s[i]) /\ i > 1 /\ IsSentenceEnd(s[i - 1])
         THEN SplitFrom(s, SkipSpaces(s, i), <<>>, Append(acc, cur))
         ELSE SplitFrom(s, i + 1, Append(cur, s[i]), acc)

LongEnough(piece) == Len(Strip(piece)) > 2

_split_sentences(text) ==
    LET kept == SelectSeq(SplitFrom(text, 1, <<>>, <<>>), LongEnough)
        sents == [i \in DOMAIN kept |-> Strip(kept[i])]
    IN  PyPrefix(sents, SentenceCap)

\* jaccard * 0.9 + length_penalty * 0.1, as the rational
\* (9 * inter * PenaltyScale + penalty * union) / union, which is the score
\* times 10 * PenaltyScale
_score_sentence(query_tokens, sent) ==
    LET toks == TokenSet(sent)
        inter == Cardinality(query_tokens \cap toks)
        union == Cardinality(query_tokens \cup toks)
    IN  IF toks = {} THEN ZeroScore
        ELSE <<9 * inter * PenaltyScale + LengthPenalty(Len(sent)) * union, union>>

\* rag.py:171-174 for one hit: its sentences that score above 0
SentenceCandidates(qtoks, sents) ==
    LET all == [i \in DOMAIN sents |->
                   [score |-> _score_sentence(qtoks, sents[i]), sent |-> sents[i]]]
        Positive(c) == ScoreLess(ZeroScore, c.score)
    IN  SelectSeq(all, Positive)

\* rag.py:169-174: the candidates of the first five hits, in hit order
RECURSIVE CandidatesOf(_, _)
CandidatesOf(qtoks, hits) ==
    IF hits = <<>> THEN <<>>
    ELSE SentenceCandidates(qtoks, _split_sentences(hits[1].snippet))
             \o CandidatesOf(qtoks, Tail(hits))

\* rag.py:180-189: walk the sorted candidates, skip lowercased duplicates, stop
\* once max_sentences are picked (the test follows the append)
RECURSIVE PickFrom(_, _, _, _, _)
PickFrom(cands, i, picked, seen, max_sentences) ==
    IF i > Len(cands) THEN picked
    ELSE LET s == cands[i].sent
             key == Lower(s)
         IN  IF key \in seen THEN PickFrom(cands, i + 1, picked, seen, max_sentences)
             ELSE IF Len(picked) + 1 >= max_sentences THEN Append(picked, s)
             ELSE PickFrom(cands, i + 1, Append(picked, s), seen \cup {key}, max_sentences)

\* the list `picked` of _compose_answer_free, <<>> when there is no candidate
PickedSentences(query, hits, max_sentences) ==
    LET candidates == CandidatesOf(TokenSet(query), PyPrefix(hits, HitsExamined))
    IN  PickFrom(SortByScoreDesc(candidates), 1, <<>>, {}, max_sentences)

\* rag.py:191: " ".join(picked).strip()
JoinedAnswer(query, hits, max_sentences) ==
    Strip(JoinSpace(PickedSentences(query, hits, max_sentences)))

\* rag.py:192-193 without the rstrip
TruncateNoRStrip(ans, max_chars) ==
    IF Len(ans) > max_chars THEN PyPrefix(ans, max_chars - 1) \o <<ELLIPSIS>> ELSE ans

\* rag.py:192-193
Truncate(ans, max_chars) ==
    IF Len(ans) > max_chars
    THEN RStrip(PyPrefix(ans, max_chars - 1)) \o <<ELLIPSIS>>
    ELSE ans

\* rag.py:191-194 without the fall-backs to the sentinel
ComposeNoSentinel(query, hits, max_sentences, max_chars) ==
    Truncate(JoinedAnswer(query, hits, max_sentences), max_chars)

\* rag.py:161-194
_compose_answer_free(query, hits, max_sentences, max_chars) ==
    LET candidates == CandidatesOf(TokenSet(query), PyPrefix(hits, HitsExamined))
        ans == Truncate(JoinedAnswer(query, hits, max_sentences), max_chars)
    IN  IF candidates = <<>> THEN SENTINEL
        ELSE IF ans = <<>> THEN SENTINEL ELSE ans

-----------------------------------------------------------------------------
(* Ingestion filters (rag.py:60-76)                                        *)

\* [=\s] of the two header patterns
IsDecoration(c) == c = "=" \/ IsSpace(c)

\* ^ under re.MULTILINE
AtLineStart(text, i) == i = 1 \/ text[i - 1] = "\n"

RECURSIVE SkipDecoration(_, _)
SkipDecoration(text, i) ==
    IF i <= Len(text) /\ IsDecoration(text[i]) THEN SkipDecoration(text, i + 1) ELSE i

\* the positions where a pattern ^[=\s]*SECTION:... can start matching, the
\* header word being one of `words`
HeaderStarts(text, words) ==
    {i \in 1..Len(text) :
        /\ AtLineStart(text, i)
        /\ SkipDecoration(text, i) <= Len(text)
        /\ text[SkipDecoration(text, i)] \in words}

SetMin(S) == CHOOSE x \in S : \A y \in S : x <= y

\* where .*?$ stops: the first line end after position j
LineEnd(text, j) ==
    LET ends == {k \in (j + 1)..Len(text) : text[k] = "\n"}
    IN  IF ends = {} THEN Len(text) + 1 ELSE SetMin(ends)

_strip_ignored_sections(text) ==
    LET prompts == HeaderStarts(text, {"<P>"})
    IN  IF prompts = {} THEN text
        ELSE LET start == SetMin(prompts)
                 mEnd == LineEnd(text, SkipDecoration(text, start))
                 tail == SubSeq(text, mEnd, Len(text))
                 next == HeaderStarts(tail, {"<P>", "<S>"})
                 from == IF next = {} THEN Len(text) + 1 ELSE mEnd + SetMin(next) - 1
             IN  Strip(SubSeq(text, 1, start - 1) \o SubSeq(text, from, Len(text)))

-----------------------------------------------------------------------------
(* Chunking (rag.py:44, the langchain RecursiveCharacterTextSplitter)      *)

CHUNK_SIZE == 800
CHUNK_OVERLAP == 120

\* the hard character cuts the splitter falls back to for a text longer than a chunk
RECURSIVE HardCuts(_, _)
HardCuts(t, from) ==
    IF from + CHUNK_SIZE - 1 >= Len(t) THEN <<SubSeq(t, from, Len(t))>>
    ELSE <<SubSeq(t, from, from + CHUNK_SIZE - 1)>>
             \o HardCuts(t, from + CHUNK_SIZE - CHUNK_OVERLAP)

\* _TEXT_SPLITTER.create_documents([content]): no chunk for a blank text, the
\* stripped text as one chunk when it fits a chunk
SplitText(content) ==
    LET t == Strip(content)
    IN  IF t = <<>> THEN <<>>
        ELSE IF Len(t) <= CHUNK_SIZE THEN <<t>>
        ELSE HardCuts(t, 1)

-----------------------------------------------------------------------------
(* The document directory (rag.py:81-128)                                  *)

PREFERRED == <<"m","y","_","d","o","c","u","m","e","n","t",".","t","x","t">>
SAMPLE_PATH == <<"s","a","m","p","l","e","_","p","o","l","a","r","_",
                 "b","e","a","r","s",".","t","x","t">>
\* the seed document, shortened to its first words
SAMPLE_TEXT == <<"P","o","l","a","r"," ","b","e","a","r","s"," ",
                 "h","u","n","t"," ","s","e","a","l","s",".">>

NamePrompts == <<"P","r","o","m","p","t","s",".","m","d">>
NameUnderscore == <<"_","n",".","t","x","t">>
NameA == <<"a",".","t","x","t">>
NameB == <<"b",".","m","d">>
NamePdf == <<"c",".","p","d","f">>

\* every file name of the model, in the order sorted() gives them (code points:
\* upper case, then "_", then lower case)
DirOrder == <<NamePrompts, NameUnderscore, NameA, NameB, NamePdf, PREFERRED, SAMPLE_PATH>>
Names == Range(DirOrder)

Absent == [st |-> "absent", text |-> <<>>]
Unreadable == [st |-> "unreadable", text |-> <<>>]
TextFile(t) == [st |-> "text", text |-> t]

EndsWith(s, suffix) ==
    Len(s) >= Len(suffix) /\ SubSeq(s, Len(s) - Len(suffix) + 1, Len(s)) = suffix

\* _DOCS_GLOB, "*.txt,*.md"
MatchesGlob(name) == EndsWith(name, <<".","t","x","t">>) \/ EndsWith(name, <<".","m","d">>)

\* rag.py:120
SkippedName(base) ==
    base[1] = "_" \/ IsSubstring(<<"p","r","o","m","p","t","s">>, Lower(base))

\* _expand_globs: the matching files of the directory, sorted
_expand_globs(dir) ==
    LET Candidate(name) == dir[name].st # "absent" /\ MatchesGlob(name)
    IN  SelectSeq(DirOrder, Candidate)

\* rag.py:99-103
CandidatesIn(dir) ==
    IF dir[PREFERRED].st # "absent" THEN <<PREFERRED>> ELSE _expand_globs(dir)

\* rag.py:105 with the test left out: the sample is written at every read
SeedsAlways(dir) == TRUE

\* rag.py:105: the sample is written when no candidate exists
SeedsSample(dir) == CandidatesIn(dir) = <<>>

\* the directory after _read_all_text_files
DirAfterRead(dir) ==
    IF SeedsSample(dir) THEN [dir EXCEPT ![SAMPLE_PATH] = TextFile(SAMPLE_TEXT)] ELSE dir

\* the list of (path, content) _read_all_text_files returns
_read_all_text_files(dir) ==
    LET candidates == IF SeedsSample(dir) THEN <<SAMPLE_PATH>> ELSE CandidatesIn(dir)
        after == DirAfterRead(dir)
        Usable(name) == ~SkippedName(name) /\ after[name].st = "text"
        kept == SelectSeq(candidates, Usable)
    IN  [i \in DOMAIN kept |-> <<kept[i], after[kept[i]].text>>]

-----------------------------------------------------------------------------
(* Index build (rag.py:199-228)                                            *)

\* rag.py:225-228, the chunks of the documents in order, appended to `chunks`
RECURSIVE AppendChunks(_, _)
AppendChunks(chunks, docs) ==
    IF docs = <<>> THEN chunks
    ELSE LET pieces == SplitText(_strip_ignored_sections(docs[1][2]))
         IN  AppendChunks(chunks \o [i \in DOMAIN pieces |-> <<docs[1][1], pieces[i]>>],
                          Tail(docs))

\* rag.py:224 without the assignment: the list keeps what it held
ChunksKept == _free_chunks

\* rag.py:224: `_free_chunks = []`
ChunksAtReset == <<>>

\* the value of _free_chunks after _init_free_mode(docs)
_init_free_mode(docs) == AppendChunks(ChunksAtReset, docs)

NoStore == [kind |-> "None", docs |-> <<>>]

-----------------------------------------------------------------------------
(* Lexical retrieval (rag.py:248-258)                                      *)

SNIPPET_CHARS == 300
TOP_K_MIN == 1
TOP_K_MAX == 10

\* rag.py:254-258 over a corpus of <<source, text>>
LexicalTopK(corpus, query, k) ==
    LET scored == [i \in DOMAIN corpus |->
                      [src |-> corpus[i][1], txt |-> corpus[i][2],
                       score |-> _keyword_overlap_score(query, corpus[i][2])]]
        first == PyPrefix(SortByScoreDesc(scored), k)
    IN  [i \in DOMAIN first |->
            [source |-> first[i].src,
             snippet |-> PyPrefix(first[i].txt, SNIPPET_CHARS),
             score |-> Round4(first[i].score)]]

\* rag.py:249-252: the corpus the lexical path scans
LexicalCorpus(store, chunks) ==
    IF USE_OPENAI /\ store.kind = "list" THEN store.docs ELSE chunks

\* rag.py:238: the similarity-search path is taken
UsesFaiss(store) == USE_OPENAI /\ store.kind = "faiss" /\ FAISS_OK

\* rag.py:304
ClampNone(top_k) == top_k

ClampTopK(top_k) == Max(TOP_K_MIN, Min(TOP_K_MAX, top_k))

\* rag.py:327
CUES == {<<"l","i","s","t">>, <<"c","o","m","p","a","r","e">>,
         <<"d","i","f","f","e","r","e","n","c","e">>,
         <<"d","i","f","f","e","r","e","n","c","e","s">>,
         <<"w","h","o">>, <<"w","h","a","t"," ","i","s">>,
         <<"w","h","a","t"," ","a","r","e">>}

want_more(query) == \E w \in CUES : IsSubstring(w, Lower(query))

MAX_CHARS == 600

\* rag.py:323-328, the free-mode answer
FreeAnswer(query, hits) ==
    IF hits = <<>> THEN SENTINEL
    ELSE _compose_answer_free(query, hits, IF want_more(query) THEN 4 ELSE 3, MAX_CHARS)

\* rag.py:331-333
StripScores(hits) == [i \in DOMAIN hits |-> [source |-> hits[i].source, snippet |-> hits[i].snippet]]

-----------------------------------------------------------------------------
(* The process: index build, startup hook and query calls                  *)
(*                                                                         *)
(* init() is a plain function and get_rag_response awaits nothing before   *)
(* its generation call (rag.py:318); both are only ever called from        *)
(* coroutines of one event loop (main.py:45-49, endpoints.py:143), so the  *)
(* code between two awaits is one atomic step.                             *)

NumCallers == 2
MaxFiles == 2

Procs == 1..NumCallers

DOC_A == <<"a"," ","b",".">>
DOC_B == <<"<P>","\n","z",".","\n","<S>","\n","b"," ","c",".">>
DOC_M == <<"A"," ","c"," ","c",".">>

\* what each file of the directory holds when it is there
Holds(name) ==
    IF name = NameB THEN {TextFile(DOC_B)}
    ELSE IF name = PREFERRED THEN {TextFile(DOC_M), Unreadable}
    ELSE IF name = SAMPLE_PATH THEN {TextFile(SAMPLE_TEXT)}
    ELSE {TextFile(DOC_A)}

Present(dir) == {n \in Names : dir[n].st # "absent"}

Directories ==
    {dir \in [Names -> {Absent, Unreadable, TextFile(DOC_A), TextFile(DOC_B),
                        TextFile(DOC_M), TextFile(SAMPLE_TEXT)}] :
        /\ \A n \in Names : dir[n] = Absent \/ dir[n] \in Holds(n)
        /\ Cardinality(Present(dir)) <= MaxFiles}

\* the questions the core is asked, and what HTTP callers send (endpoints.py:96-101)
Queries == {<<"b"," ","c">>}
RawQueries == Queries \cup {<<" ","b"," ">>}

\* endpoints.py:102-107: FastAPI admits 1 <= top_k <= 10
TopKs == {4, 10}

\* rag.py:283-285: the defaults of get_rag_response
DEFAULT_TOP_K == 4
DEFAULT_TRACE == FALSE
DEFAULT_REQUEST_ID == "None"

\* endpoints.py:128
REQUEST_ID == "uuid4"

\* endpoints.py:133
MIN_QUERY_CHARS == 3

NoneScore == 0 - 1
LLM_TEXT == <<"l","l","m">>

\* the classes of exception the handler tells apart (endpoints.py:144, 187-194)
Exc == {"TimeoutError", "ValueError", "TypeError", "Exception"}

\* a request of the HTTP handler: its position; the query, the trace flag and the
\* number of the invocation of get_rag_response it is in or ended with; whether
\* every invocation got the request's own arguments; what the core returned
\* (sources, answer) or raised; and the response (status, and whether its detail
\* holds the text of the exception)
Idle == [pc |-> "idle", query |-> <<>>, trace |-> FALSE, calls |-> 0, own |-> TRUE,
         hits |-> <<>>, answer |-> <<>>, error |-> "none", status |-> 0, leak |-> FALSE]

\* history of the build: how the last run of init's body in this process ended
\* ("none" before the first), runs of _init_free_mode that completed, builds that
\* set the readiness flag, seed files written to the directory, processes started
\* after the first, the documents the last run read, and whether a run that raised
\* left chunks in the free-mode list
NoStats == [last |-> "none", freeBuilds |-> 0, builds |-> 0, seeds |-> 0,
            restarts |-> 0, docs |-> <<>>,
            left |-> FALSE]

buildVars == <<files, _INDEX_READY, _free_chunks, _vectorstore, _embeddings, stats>>

\* rag.py:267 without the early return
InitGuardOff == FALSE

\* rag.py:267
InitGuard == _INDEX_READY

\* rag.py:300
NeedsInit == ~_INDEX_READY

\* rag.py:260-276; `raised` tells whether the call ended in an exception
init(raised) ==
    IF InitGuard
    THEN raised = FALSE /\ UNCHANGED buildVars
    ELSE LET docs == _read_all_text_files(files)
             seeds == IF SeedsSample(files) THEN 1 ELSE 0
             ran == [stats EXCEPT !.last = "built", !.seeds = @ + seeds, !.docs = docs]
             broke == [ran EXCEPT !.last = "raised"]
         IN  /\ files' = DirAfterRead(files)
             /\ IF ~USE_OPENAI
                THEN \/ \* _init_free_mode completes (rag.py:223-228, 276)
                        /\ _free_chunks' = _init_free_mode(docs)
                        /\ _INDEX_READY' = TRUE
                        /\ stats' = [ran EXCEPT !.freeBuilds = @ + 1, !.builds = @ + 1]
                        /\ raised = FALSE
                        /\ UNCHANGED <<_vectorstore, _embeddings>>
                     \/ \* the splitter raises at document n + 1 (rag.py:226-227)
                        \E n \in 0..(Len(docs) - 1) :
                            /\ _free_chunks' = _init_free_mode(SubSeq(docs, 1, n))
                            /\ raised = TRUE
                            /\ stats' = [broke EXCEPT !.left = @ \/ _free_chunks' # <<>>]
                            /\ UNCHANGED <<_INDEX_READY, _vectorstore, _embeddings>>
                ELSE \/ \* OpenAIEmbeddings() raises (rag.py:211)
                        /\ raised = TRUE
                        /\ stats' = broke
                        /\ UNCHANGED <<_INDEX_READY, _free_chunks, _vectorstore, _embeddings>>
                     \/ \* FAISS.from_documents raises (rag.py:214)
                        /\ FAISS_OK
                        /\ raised = TRUE
                        /\ _embeddings' = "OpenAIEmbeddings"
                        /\ stats' = broke
                        /\ UNCHANGED <<_INDEX_READY, _free_chunks, _vectorstore>>
                     \/ \* the store is built (rag.py:211-217, 276)
                        /\ raised = FALSE
                        /\ _embeddings' = "OpenAIEmbeddings"
                        /\ _vectorstore' = [kind |-> IF FAISS_OK THEN "faiss" ELSE "list",
                                            docs |-> AppendChunks(<<>>, docs)]
                        /\ _INDEX_READY' = TRUE
                        /\ stats' = [ran EXCEPT !.builds = @ + 1]
                        /\ UNCHANGED _free_chunks

\* main.py:44-53: `await rag_init()` calls init; awaiting its None raises TypeError,
\* and so may init itself; any other exception is logged
LifespanAwaitInit ==
    /\ lifespan = "startup"
    /\ \E raised \in BOOLEAN, e \in Exc :
          /\ init(raised)
          /\ lifespan' = IF raised /\ e # "TypeError" THEN "serving" ELSE "type_error"
    /\ UNCHANGED <<USE_OPENAI, FAISS_OK, reqs, arg, out, pc>>

\* main.py:47-56: the handler of the TypeError calls init() again; what that call
\* raises is caught by the outer handler
LifespanSyncInit ==
    /\ lifespan = "type_error"
    /\ \E raised \in BOOLEAN : init(raised)
    /\ lifespan' = "serving"
    /\ UNCHANGED <<USE_OPENAI, FAISS_OK, reqs, arg, out, pc>>

\* the lists similarity_search may return: any k of the stored chunks, in any order
FaissHits(store, k) ==
    LET n == Len(store.docs)
        m == Min(k, n)
        picks == {s \in [1..m -> 1..n] : \A i, j \in 1..m : i # j => s[i] # s[j]}
    IN  {[i \in 1..m |-> [source |-> store.docs[s[i]][1],
                          snippet |-> PyPrefix(store.docs[s[i]][2], SNIPPET_CHARS),
                          score |-> NoneScore]] : s \in picks}

\* rag.py:230-258: the hit lists _top_k_from_vectorstore(query, k) may return when
\* _vectorstore is `store` and _free_chunks is `chunks`
_top_k_from_vectorstore(store, chunks, query, k) ==
    IF UsesFaiss(store) THEN FaissHits(store, k)
    ELSE {LexicalTopK(LexicalCorpus(store, chunks), query, k)}

\* rag.py:331-333 with the pop left out
TrimmedNever(hits, trace) == hits

\* rag.py:331-333
Trimmed(hits, trace) == IF trace THEN hits ELSE StripScores(hits)

\* endpoints.py:186-199: the response to an exception of class e
HttpError(e) ==
    IF e = "TimeoutError" THEN [status |-> 504, leak |-> TRUE]
    ELSE IF e = "ValueError" THEN [status |-> 400, leak |-> TRUE]
    ELSE [status |-> 500, leak |-> FALSE]

\* endpoints.py:144-146 and 186-199: the n-th invocation, made for request r, raised e
Raised(r, e, n) ==
    IF e = "TypeError" /\ n = 1
    THEN [Idle EXCEPT !.pc = "retrying", !.query = r.query, !.calls = n]
    ELSE [Idle EXCEPT !.pc = "raised", !.query = r.query, !.calls = n, !.own = r.own,
                      !.error = e, !.status = HttpError(e).status,
                      !.leak = HttpError(e).leak]

\* endpoints.py:153-184: the n-th invocation returned sources and an answer
Returned(r, hits, answer, n) ==
    [r EXCEPT !.pc = "done", !.calls = n, !.hits = hits, !.answer = answer,
              !.status = IF answer = <<>> THEN 503 ELSE 200]

\* no handler stands between a caught TypeError and its second invocation: the
\* handler does not yield there (endpoints.py:144-146)
NoRetryPending == \A q \in Procs : reqs[q].pc # "retrying"

\* rag.py:299-341 up to the generation call, as the n-th invocation of request p:
\* lazy init, retrieval and, in free mode, the answer
GetRagResponse(p, query, top_k, trace, n) ==
    LET r == [reqs[p] EXCEPT !.query = query, !.trace = trace]
    IN  \E raised \in BOOLEAN :
          /\ IF NeedsInit THEN init(raised) ELSE raised = FALSE /\ UNCHANGED buildVars
          /\ IF raised
             THEN \E e \in Exc : reqs' = [reqs EXCEPT ![p] = Raised(r, e, n)]
             ELSE \/ \E hits \in _top_k_from_vectorstore(_vectorstore', _free_chunks', query,
                                                          ClampTopK(top_k)) :
                        reqs' = [reqs EXCEPT ![p] =
                           IF USE_OPENAI
                           THEN [r EXCEPT !.pc = "awaiting_llm", !.calls = n, !.hits = hits]
                           ELSE Returned(r, Trimmed(hits, trace), FreeAnswer(query, hits), n)]
                  \/ \* similarity_search (rag.py:239) or ChatOpenAI() (rag.py:312) raises
                     /\ USE_OPENAI
                     /\ \E e \in Exc : reqs' = [reqs EXCEPT ![p] = Raised(r, e, n)]

\* endpoints.py:128-146: the handler up to the first point where it yields
QueryRagSystem(p) ==
    /\ reqs[p].pc = "idle"
    /\ lifespan \in {"serving", "omitted"}
    /\ NoRetryPending
    /\ UNCHANGED <<USE_OPENAI, FAISS_OK, lifespan, arg, out, pc>>
    /\ \E raw \in RawQueries, top_k \in TopKs, trace \in BOOLEAN :
          LET q == Strip(raw)
          IN  IF Len(q) < MIN_QUERY_CHARS
              THEN /\ reqs' = [reqs EXCEPT ![p] = [Idle EXCEPT !.pc = "rejected", !.status = 422]]
                   /\ UNCHANGED buildVars
              ELSE GetRagResponse(p, q, top_k, trace, 1)

\* the arguments a request may hold, and those of the second invocation
RequestArgs == [top_k : TopKs, trace : BOOLEAN, request_id : {REQUEST_ID}]
SecondCallArgs == [top_k |-> DEFAULT_TOP_K, trace |-> DEFAULT_TRACE,
                   request_id |-> DEFAULT_REQUEST_ID]

\* endpoints.py:144-146: after a TypeError, get_rag_response(q) is called
QueryRagSystemRetry(p) ==
    /\ reqs[p].pc = "retrying"
    /\ UNCHANGED <<USE_OPENAI, FAISS_OK, lifespan, arg, out, pc>>
    /\ \E raised \in BOOLEAN :
          LET r == [reqs[p] EXCEPT !.own = SecondCallArgs \in RequestArgs]
              q == reqs[p].query
          IN  /\ IF NeedsInit THEN init(raised) ELSE raised = FALSE /\ UNCHANGED buildVars
              /\ IF raised
                 THEN \E e \in Exc : reqs' = [reqs EXCEPT ![p] = Raised(r, e, 2)]
                 ELSE \/ \E hits \in _top_k_from_vectorstore(_vectorstore', _free_chunks', q,
                                                              ClampTopK(DEFAULT_TOP_K)) :
                            reqs' = [reqs EXCEPT ![p] =
                               IF USE_OPENAI
                               THEN [r EXCEPT !.pc = "awaiting_llm", !.calls = 2,
                                              !.trace = DEFAULT_TRACE, !.hits = hits]
                               ELSE Returned([r EXCEPT !.trace = DEFAULT_TRACE],
                                             Trimmed(hits, DEFAULT_TRACE),
                                             FreeAnswer(q, hits), 2)]
                      \/ /\ USE_OPENAI
                         /\ \E e \in Exc : reqs' = [reqs EXCEPT ![p] = Raised(r, e, 2)]

\* rag.py:318-341 and endpoints.py:148-199: the generation call returns some text,
\* or raises
LlmReturns(p) ==
    /\ reqs[p].pc = "awaiting_llm"
    /\ NoRetryPending
    /\ \/ \E text \in {LLM_TEXT, <<>>} :
             reqs' = [reqs EXCEPT ![p] =
                         Returned(@, Trimmed(@.hits, @.trace), text, @.calls)]
       \/ \E e \in Exc : reqs' = [reqs EXCEPT ![p] = Raised(@, e, @.calls)]
    /\ UNCHANGED <<USE_OPENAI, FAISS_OK, lifespan, arg, out, pc>>
    /\ UNCHANGED buildVars

\* the documents the operator of the service may add while it runs
Deliveries == {NameA, NameB}

\* the operator of the service puts one more document into the directory
OperatorAddsFile ==
    /\ Cardinality(Present(files)) < MaxFiles
    /\ \E n \in Deliveries : \E f \in Holds(n) :
          /\ files[n] = Absent
          /\ files' = [files EXCEPT ![n] = f]
    /\ UNCHANGED <<USE_OPENAI, FAISS_OK, _INDEX_READY, _free_chunks, _vectorstore,
                   _embeddings, lifespan, reqs, stats, arg, out, pc>>

\* the function variables are not used by the process
FnIdle == arg = <<>> /\ out = <<>> /\ pc = "core"

Init ==
    /\ USE_OPENAI \in BOOLEAN
    /\ FAISS_OK \in BOOLEAN
    /\ USE_OPENAI \/ ~FAISS_OK
    /\ files \in Directories
    /\ _INDEX_READY = FALSE
    /\ _free_chunks = <<>>
    /\ _vectorstore = NoStore
    /\ _embeddings = "None"
    /\ lifespan \in {"startup", "omitted"}
    /\ reqs = [p \in Procs |-> Idle]
    /\ stats = NoStats
    /\ FnIdle

Next ==
    \/ LifespanAwaitInit
    \/ LifespanSyncInit
    \/ \E p \in Procs : QueryRagSystem(p)
    \/ \E p \in Procs : QueryRagSystemRetry(p)
    \/ \E p \in Procs : LlmReturns(p)
    \/ OperatorAddsFile

Spec == Init /\ [][Next]_vars

(* A later process over the same directory *)

MaxRestarts == 1

\* the directory holds no file (os.makedirs at rag.py:96 creates it when absent)
EmptyDir == [n \in Names |-> Absent]

\* the service is stopped and started again: the globals of rag.py:48-55 start over,
\* the directory stays
ProcessRestart ==
    /\ stats.restarts < MaxRestarts
    /\ _INDEX_READY' = FALSE
    /\ _free_chunks' = <<>>
    /\ _vectorstore' = NoStore
    /\ _embeddings' = "None"
    /\ lifespan' \in {"startup", "omitted"}
    /\ reqs' = [p \in Procs |-> Idle]
    /\ stats' = [NoStats EXCEPT !.seeds = stats.seeds, !.restarts = stats.restarts + 1]
    /\ UNCHANGED <<USE_OPENAI, FAISS_OK, files, arg, out, pc>>

InitEmptyDir == Init /\ files = EmptyDir

NextRestart == Next \/ ProcessRestart

SpecRestart == InitEmptyDir /\ [][NextRestart]_vars

-----------------------------------------------------------------------------
(* Function specifications: the inputs are drawn in the initial state and  *)
(* one step applies the function.                                          *)

MaxStrLen == 3
MaxSmallCorpus == 2
LongCorpusExtra == 2
MaxHits == 2
MaxSentences == 3
MaxCharsRange == 12
MaxDocLen == 5

\* all strings over `alphabet` of at most n characters
RECURSIVE StringsUpTo(_, _)
StringsUpTo(alphabet, n) ==
    IF n = 0 THEN {<<>>}
    ELSE LET shorter == StringsUpTo(alphabet, n - 1)
         IN  shorter \cup {Append(s, c) : s \in shorter, c \in alphabet}

\* the process stands still, in free mode with its index built over `chunks`
CoreBuilt(chunks) ==
    /\ USE_OPENAI = FALSE
    /\ FAISS_OK = FALSE
    /\ files = [n \in Names |-> Absent]
    /\ _INDEX_READY = TRUE
    /\ _free_chunks = chunks
    /\ _vectorstore = NoStore
    /\ _embeddings = "None"
    /\ lifespan = "omitted"
    /\ reqs = [p \in Procs |-> Idle]
    /\ stats = NoStats

(* _keyword_overlap_score *)

ScoreStrings == StringsUpTo({"a", "b", "A", " "}, MaxStrLen)

InitJaccard ==
    /\ CoreBuilt(<<>>)
    /\ arg \in [query : ScoreStrings, text : ScoreStrings]
    /\ out = ZeroScore
    /\ pc = "call"

CallScore ==
    /\ pc = "call"
    /\ out' = _keyword_overlap_score(arg.query, arg.text)
    /\ pc' = "done"
    /\ UNCHANGED <<arg, USE_OPENAI, FAISS_OK, files, _INDEX_READY, _free_chunks,
                   _vectorstore, _embeddings, lifespan, reqs, stats>>

NextJaccard == CallScore

SpecJaccard == InitJaccard /\ [][NextJaccard]_vars

(* clamp and lexical retrieval, rag.py:304-305 *)

ChunkPool == <<<<NameA, <<"a"," ","b",".">>>>, <<NameA, <<"b"," ","c">>>>,
               <<NameB, <<"a">>>>, <<NameB, <<"z"," ","A">>>>>>

\* the corpus of n chunks that walks round the pool from `shift`
CyclicCorpus(n, shift) == [i \in 1..n |-> ChunkPool[((i + shift) % Len(ChunkPool)) + 1]]

RECURSIVE SeqsUpTo(_, _)
SeqsUpTo(S, n) ==
    IF n = 0 THEN {<<>>}
    ELSE LET shorter == SeqsUpTo(S, n - 1)
         IN  shorter \cup {Append(s, x) : s \in shorter, x \in S}

Corpora ==
    SeqsUpTo(Range(ChunkPool), MaxSmallCorpus)
        \cup {CyclicCorpus(n, shift) : n \in (TOP_K_MAX - 1)..(TOP_K_MAX + LongCorpusExtra),
                                      shift \in 0..(Len(ChunkPool) - 1)}

RetrieveQueries == {<<"a">>, <<"B"," ","a">>, <<"q">>}
RetrieveTopKs == {0 - 3, 0, 1, 2, TOP_K_MAX, TOP_K_MAX + 1, 50}

InitRetrieve ==
    /\ \E corpus \in Corpora : CoreBuilt(corpus)
    /\ arg \in [query : RetrieveQueries, top_k : RetrieveTopKs]
    /\ out = <<>>
    /\ pc = "call"

CallRetrieve ==
    /\ pc = "call"
    /\ out' \in _top_k_from_vectorstore(_vectorstore, _free_chunks, arg.query,
                                        ClampTopK(arg.top_k))
    /\ pc' = "done"
    /\ UNCHANGED <<arg, USE_OPENAI, FAISS_OK, files, _INDEX_READY, _free_chunks,
                   _vectorstore, _embeddings, lifespan, reqs, stats>>

NextRetrieve == CallRetrieve

SpecRetrieve == InitRetrieve /\ [][NextRetrieve]_vars

(* the free-mode synthesizer, rag.py:161-194 and 323-328 *)

SnippetPool == {<<"a"," ","b","b","."," ","c","c"," ","d",".">>,
                <<"a"," ","b","b","."," ","A"," ","B","B",".">>,
                <<"z","z"," ","a","?"," ",".",".",".">>,
                <<"a",".">>,
                <<"c","c"," ","d">>}

ComposeQueries == {<<"a">>, <<"b","b"," ","A">>, <<"q","q">>, <<"?">>, <<"w","h","o"," ","a">>}

HitOf(snippet) == [source |-> NameA, snippet |-> snippet, score |-> 0]

\* a sentence and its upper-case twin, both the best match of "a"
TwinSnippet == <<"a"," ","a","."," ","A"," ","A",".">>
\* five sentences of one score
FiveSnippet == <<"a"," ","c","."," ","a"," ","d","."," ","a"," ","e","."," ",
                 "a"," ","f","."," ","a"," ","g",".">>
\* more hits than rag.py:170 examines, the best sentence in the last one
SixHits == [i \in 1..6 |-> HitOf(IF i = 6 THEN TwinSnippet ELSE <<"z","z"," ","a","?">>)]

HitLists ==
    LET lists == SeqsUpTo(SnippetPool, MaxHits)
    IN  {[i \in DOMAIN l |-> HitOf(l[i])] : l \in lists}
            \cup {<<HitOf(FiveSnippet), HitOf(TwinSnippet)>>, SixHits}

InitCompose ==
    /\ CoreBuilt(<<>>)
    /\ arg \in [query : ComposeQueries, hits : HitLists,
                max_sentences : 1..MaxSentences, max_chars : 1..MaxCharsRange]
    /\ out = <<>>
    /\ pc = "call"

\* _compose_answer_free(query, hits, max_sentences, max_chars)
CallCompose ==
    /\ pc = "call"
    /\ out' = _compose_answer_free(arg.query, arg.hits, arg.max_sentences, arg.max_chars)
    /\ pc' = "composed"
    /\ UNCHANGED <<arg, USE_OPENAI, FAISS_OK, files, _INDEX_READY, _free_chunks,
                   _vectorstore, _embeddings, lifespan, reqs, stats>>

\* the free-mode branch of get_rag_response, rag.py:323-328
CallFreeAnswer ==
    /\ pc = "call"
    /\ out' = FreeAnswer(arg.query, arg.hits)
    /\ pc' = "answered"
    /\ UNCHANGED <<arg, USE_OPENAI, FAISS_OK, files, _INDEX_READY, _free_chunks,
                   _vectorstore, _embeddings, lifespan, reqs, stats>>

\* rag.py:168-189, the list `picked` of _compose_answer_free
CallPick ==
    /\ pc = "call"
    /\ out' = PickedSentences(arg.query, arg.hits, arg.max_sentences)
    /\ pc' = "picked"
    /\ UNCHANGED <<arg, USE_OPENAI, FAISS_OK, files, _INDEX_READY, _free_chunks,
                   _vectorstore, _embeddings, lifespan, reqs, stats>>

\* rag.py:326-328 followed by rag.py:168-189: the list `picked` of the call that
\* get_rag_response makes
CallFreePick ==
    /\ pc = "call"
    /\ arg.hits # <<>>
    /\ out' = PickedSentences(arg.query, arg.hits, IF want_more(arg.query) THEN 4 ELSE 3)
    /\ pc' = "free_picked"
    /\ UNCHANGED <<arg, USE_OPENAI, FAISS_OK, files, _INDEX_READY, _free_chunks,
                   _vectorstore, _embeddings, lifespan, reqs, stats>>

NextCompose == CallCompose \/ CallFreeAnswer \/ CallPick \/ CallFreePick

SpecCompose == InitCompose /\ [][NextCompose]_vars

(* section stripping and chunking of one document, rag.py:225-228 *)

DocTexts == StringsUpTo({"a", "\n", "=", "<P>", "<S>"}, MaxDocLen)

InitStrip ==
    /\ CoreBuilt(<<>>)
    /\ arg \in DocTexts
    /\ out = <<>>
    /\ pc = "call"

CallInitFreeMode ==
    /\ pc = "call"
    /\ out' = _init_free_mode(<<<<NameA, arg>>>>)
    /\ pc' = "done"
    /\ UNCHANGED <<arg, USE_OPENAI, FAISS_OK, files, _INDEX_READY, _free_chunks,
                   _vectorstore, _embeddings, lifespan, reqs, stats>>

NextStrip == CallInitFreeMode

SpecStrip == InitStrip /\ [][NextStrip]_vars

-----------------------------------------------------------------------------
(* Properties                                                              *)

\* C1: the index build is idempotent. Once a call of init() has set the readiness
\* flag, no later call of init() or get_rag_response (the second call of the
\* startup hook included) changes the flag, the chunk collection, the vector
\* store or the files of the directory, and no further seed file is written;
\* only the operator of the service changes the directory.
C1_BuildIdempotent ==
    [][_INDEX_READY =>
          /\ _INDEX_READY'
          /\ _free_chunks' = _free_chunks
          /\ _vectorstore' = _vectorstore
          /\ stats'.seeds = stats.seeds
          /\ (files' = files \/ OperatorAddsFile)]_vars

\* C1 witness: free mode, the startup hook has called init() twice (await, then
\* sync), the first call seeded the directory, and every query has been answered.
C1_Witness ==
    /\ ~USE_OPENAI /\ lifespan = "serving" /\ _INDEX_READY
    /\ stats.builds = 1 /\ stats.seeds = 1
    /\ \A p \in Procs : reqs[p].pc = "done"

\* the chunk some hit was cut from is in `chunks`
HitsFrom(hits, chunks) ==
    \A i \in DOMAIN hits : \E j \in DOMAIN chunks :
        /\ hits[i].source = chunks[j][1]
        /\ hits[i].snippet = PyPrefix(chunks[j][2], SNIPPET_CHARS)

RECURSIVE SentencesOf(_)
SentencesOf(hits) ==
    IF hits = <<>> THEN <<>>
    ELSE _split_sentences(hits[1].snippet) \o SentencesOf(Tail(hits))

Shares(query, sent) == TokenSet(query) \cap TokenSet(sent) # {}

\* C3: a sentence that shares no token with the query is discarded: no such
\* sentence is among the sentences of the composed answer, and when every
\* sentence is disjoint from the query the answer is the sentinel.
C3_DisjointDiscarded ==
    pc = "composed" =>
        LET picked == PickedSentences(arg.query, arg.hits, arg.max_sentences)
            sents == SentencesOf(PyPrefix(arg.hits, HitsExamined))
        IN  /\ \A i \in DOMAIN picked : Shares(arg.query, picked[i])
            /\ ((\A i \in DOMAIN sents : ~Shares(arg.query, sents[i])) => out = SENTINEL)

\* the number of white-space characters at the end of s
RECURSIVE TrailingSpaces(_)
TrailingSpaces(s) ==
    IF s # <<>> /\ IsSpace(s[Len(s)]) THEN 1 + TrailingSpaces(SubSeq(s, 1, Len(s) - 1))
    ELSE 0

\* C4 as stated: the answer is never longer than max_chars, and when the joined
\* sentences exceed max_chars it ends with the ellipsis and is exactly max_chars
\* long.
C4_TruncationExact ==
    pc = "composed" =>
        LET joined == JoinedAnswer(arg.query, arg.hits, arg.max_sentences)
        IN  /\ Len(out) <= arg.max_chars
            /\ (Len(joined) > arg.max_chars =>
                   out[Len(out)] = ELLIPSIS /\ Len(out) = arg.max_chars)

\* C4 amended: an answer made of sentences is never longer than max_chars (the
\* sentinel is returned whole); when the joined sentences exceed max_chars the
\* answer ends with the ellipsis and its length is max_chars less the white space
\* that ended the first max_chars - 1 characters.
C4_TruncationLaw ==
    pc = "composed" =>
        LET joined == JoinedAnswer(arg.query, arg.hits, arg.max_sentences)
        IN  /\ (joined = <<>> => out = SENTINEL)
            /\ (joined # <<>> => Len(out) <= arg.max_chars)
            /\ (Len(joined) > arg.max_chars =>
                   /\ out[Len(out)] = ELLIPSIS
                   /\ Len(out) = arg.max_chars
                                   - TrailingSpaces(PyPrefix(joined, arg.max_chars - 1))
                   /\ SubSeq(out, 1, Len(out) - 1) = PyPrefix(joined, Len(out) - 1))

\* C4 witness: a truncated answer that is shorter than max_chars.
C4_Witness ==
    /\ pc = "composed"
    /\ Len(JoinedAnswer(arg.query, arg.hits, arg.max_sentences)) > arg.max_chars
    /\ Len(out) < arg.max_chars
    /\ out[Len(out)] = ELLIPSIS

\* the directory holds candidates, and none of them is a readable document with an
\* admitted name
NothingUsable(dir) ==
    LET Usable(name) == ~SkippedName(name) /\ dir[name].st = "text"
    IN  CandidatesIn(dir) # <<>> /\ SelectSeq(CandidatesIn(dir), Usable) = <<>>

\* C5: a first build that finds candidates in the directory, none of them a
\* readable document with an admitted name, seeds the directory with the sample
\* document and leaves an index of at least one chunk.
C5_SeededWhenFiltered ==
    [][(~USE_OPENAI /\ ~_INDEX_READY /\ _INDEX_READY' /\ NothingUsable(files)) =>
          /\ stats'.seeds = stats.seeds + 1
          /\ files'[SAMPLE_PATH].st = "text"
          /\ _free_chunks' # <<>>]_vars

\* the lines of a text: where each starts
LineStarts(text) == {i \in 1..Len(text) : AtLineStart(text, i)}

LineOf(text, p) == CHOOSE s \in LineStarts(text) :
                      s <= p /\ \A t \in LineStarts(text) : t <= p => t <= s

\* the header word a line starts with after its "=" and blanks, "" if none
HeaderOf(text, s) ==
    LET rest == {j \in s..Len(text) :
                    /\ \A k \in s..j : text[k] # "\n"
                    /\ ~(text[j] = "=" \/ IsSpace(text[j]))}
    IN  IF rest # {} /\ text[SetMin(rest)] \in {"<P>", "<S>"} THEN text[SetMin(rest)] ELSE ""

\* position p lies in a PROMPTS region: the last header line at or above its line is
\* a PROMPTS header
InPromptsRegion(text, p) ==
    LET headers == {s \in LineStarts(text) : s <= LineOf(text, p) /\ HeaderOf(text, s) # ""}
    IN  headers # {} /\
        HeaderOf(text, CHOOSE s \in headers : \A t \in headers : t <= s) = "<P>"

\* the text without its PROMPTS regions
RECURSIVE WithoutRegions(_, _)
WithoutRegions(text, p) ==
    IF p > Len(text) THEN <<>>
    ELSE (IF InPromptsRegion(text, p) THEN <<>> ELSE <<text[p]>>)
             \o WithoutRegions(text, p + 1)

\* a text without its white space and "=" rules
Inked(text) == LET Ink(c) == ~IsDecoration(c) IN SelectSeq(text, Ink)

RECURSIVE ChunkTexts(_)
ChunkTexts(chunks) ==
    IF chunks = <<>> THEN <<>> ELSE chunks[1][2] \o ChunkTexts(Tail(chunks))

\* C6: every PROMPTS region of a document, however many there are, is removed
\* before chunking and the text outside the regions is kept: the chunks hold the
\* characters outside the regions and no others (white space and rules aside).
C6_PromptsRemoved ==
    pc = "done" => Inked(ChunkTexts(out)) = Inked(WithoutRegions(arg, 1))

\* C7: with no hit the free-mode answer is the sentinel, and the answer is never
\* the empty string.
C7_SentinelNeverEmpty ==
    pc \in {"composed", "answered"} =>
        /\ out # <<>>
        /\ (arg.hits = <<>> => out = SENTINEL)

\* C7 witness: the free-mode branch of get_rag_response answered an empty hit list.
C7_Witness == pc = "answered" /\ arg.hits = <<>> /\ out = SENTINEL

\* C8: the number of hits is min(clamp(top_k, 1, 10), number of chunks), never
\* more than 10, whatever top_k the caller passes.
C8_TopKClamped ==
    pc = "done" =>
        LET k == IF arg.top_k < 1 THEN 1 ELSE IF arg.top_k > 10 THEN 10 ELSE arg.top_k
        IN  /\ Len(out) = Min(k, Len(_free_chunks))
            /\ Len(out) <= 10

\* C8 witness: top_k = 50 over an index of more than ten chunks returns ten hits.
C8_Witness ==
    pc = "done" /\ arg.top_k = 50 /\ Len(_free_chunks) > 10 /\ Len(out) = 10

\* the place of chunk i in the ranking: the chunks that score higher, and the
\* earlier chunks that score the same
RankOf(query, corpus, i) ==
    LET Score(j) == _keyword_overlap_score(query, corpus[j][2])
    IN  Cardinality({j \in DOMAIN corpus : ScoreLess(Score(i), Score(j))})
          + Cardinality({j \in 1..(i - 1) : ScoreEq(Score(i), Score(j))})

\* C9: the hits are the first k chunks by descending Jaccard score, chunks of
\* equal score in their order in the collection.
C9_RankedStable ==
    pc = "done" =>
        \A r \in DOMAIN out :
            \E i \in DOMAIN _free_chunks :
                /\ RankOf(arg.query, _free_chunks, i) = r - 1
                /\ out[r].source = _free_chunks[i][1]
                /\ out[r].snippet = PyPrefix(_free_chunks[i][2], SNIPPET_CHARS)
                /\ out[r].score = Round4(_keyword_overlap_score(arg.query, _free_chunks[i][2]))

\* C9 witness: two different chunks of equal positive score are neighbours in the
\* hits, and a chunk is left out.
C9_Witness ==
    /\ pc = "done" /\ Len(out) < Len(_free_chunks)
    /\ \E r \in 1..(Len(out) - 1) :
          out[r].score = out[r + 1].score /\ out[r] # out[r + 1] /\ out[r].score > 0

\* C10: the Jaccard score lies in [0, 1], is 0 when either token set is empty, and
\* is 1 only when the two token sets are equal and not empty.
C10_JaccardRange ==
    pc = "done" =>
        LET q == TokenSet(arg.query)
            t == TokenSet(arg.text)
        IN  /\ out[2] > 0 /\ 0 <= out[1] /\ out[1] <= out[2]
            /\ ((q = {} \/ t = {}) => out[1] = 0)
            /\ (out[1] = out[2] => q = t /\ q # {})

\* C10 witness: two different strings with the same token set score 1.
C10_Witness == pc = "done" /\ out[1] = out[2] /\ arg.query # arg.text

\* C11: in a first process that starts over an empty directory, the first run of
\* the index build of a process that finds the directory empty writes the sample
\* document, which is then the one file of the directory, and a build that
\* completes leaves an index of at least one chunk; no build or query of this or
\* of a later process writes a second seed file.
C11_OneSeed ==
    [][/\ (stats.last = "none" /\ stats'.last # "none" /\ files = EmptyDir) =>
             /\ stats'.seeds = 1
             /\ Present(files') = {SAMPLE_PATH}
             /\ files'[SAMPLE_PATH] = TextFile(SAMPLE_TEXT)
             /\ (_INDEX_READY' =>
                    IF USE_OPENAI THEN _vectorstore'.docs # <<>> ELSE _free_chunks' # <<>>)
       /\ stats'.seeds <= 1
       /\ (stats.seeds = 1 => stats'.seeds = 1 /\ files'[SAMPLE_PATH] = files[SAMPLE_PATH])]_vars

\* C11 witness: the first process seeded the empty directory, and a later process
\* has built its index from the seeded file and answered a query.
C11_Witness ==
    /\ stats.restarts = 1 /\ stats.seeds = 1 /\ stats.last = "built" /\ _INDEX_READY
    /\ Present(files) = {SAMPLE_PATH}
    /\ ~USE_OPENAI /\ _free_chunks # <<>>
    /\ \E p \in Procs : reqs[p].pc = "done" /\ reqs[p].hits # <<>>

\* C12: a failure while the vector backend is set up (the embeddings or the vector
\* store raise during the build) makes the process go on in free mode; the step
\* in which the build fails does not end a query with an error, and no later query
\* ends with an error because the build fails again.
C12_DegradesToFree ==
    [][/\ (USE_OPENAI /\ stats.last # "raised" /\ stats'.last = "raised") =>
             /\ ~USE_OPENAI'
             /\ \A p \in Procs : reqs'[p].pc \notin {"raised", "retrying"}
       /\ (USE_OPENAI /\ stats.last = "raised" /\ ~_INDEX_READY' =>
             \A p \in Procs : reqs[p].pc = "idle" => reqs'[p].pc \in {"idle", "done", "rejected"})]_vars

\* C13: a request that ends with an exception of the core other than a timeout is
\* answered with the opaque failure: status 500 and a detail that does not hold
\* the text of the exception, whatever the class of the exception.
C13_OpaqueFailures ==
    \A p \in Procs :
        (reqs[p].pc = "raised" /\ reqs[p].error # "TimeoutError") =>
            reqs[p].status = 500 /\ ~reqs[p].leak

\* C18: a request invokes get_rag_response at most once, and only with its own
\* top_k, trace and request_id, whatever the first invocation returns or raises.
C18_SingleInvocation ==
    \A p \in Procs : reqs[p].calls <= 1 /\ reqs[p].own

\* the values of k the handler can pass on (endpoints.py:143, 146), clamped
PassedKs == {ClampTopK(k) : k \in TopKs \cup {DEFAULT_TOP_K}}

\* the hits a lexical retrieval of `query` over the index as it stands may return
LexicalNow(query) ==
    {LexicalTopK(LexicalCorpus(_vectorstore, _free_chunks), query, k) : k \in PassedKs}

\* C14: the sources of an answered query carry no score field when trace is false;
\* in lexical mode they carry the retrieval score when trace is true, and they are
\* the same hits, in the same order, with the same source and snippet, whether
\* trace is true or false.
C14_ScoresOnlyWithTrace ==
    \A p \in Procs :
        reqs[p].pc = "done" =>
            /\ (~reqs[p].trace =>
                   \A i \in DOMAIN reqs[p].hits :
                       DOMAIN reqs[p].hits[i] = {"source", "snippet"})
            /\ (~UsesFaiss(_vectorstore) =>
                   \E full \in LexicalNow(reqs[p].query) :
                       /\ StripScores(reqs[p].hits) = StripScores(full)
                       /\ (reqs[p].trace => reqs[p].hits = full))

\* C14 witness: two answered queries in free mode, one with trace and one without,
\* with the same hits but for the score.
C14_Witness ==
    /\ ~USE_OPENAI
    /\ \E p, q \in Procs :
          /\ reqs[p].pc = "done" /\ reqs[p].trace /\ reqs[p].hits # <<>>
          /\ reqs[p].hits[1].score > 0
          /\ reqs[q].pc = "done" /\ ~reqs[q].trace
          /\ reqs[q].hits = StripScores(reqs[p].hits)

\* a is the start of b
IsPrefix(a, b) == Len(a) <= Len(b) /\ a = SubSeq(b, 1, Len(a))

\* C15: once the readiness flag is set, no step of a query, of init or of the
\* startup hook changes the flag, the chunk collection, the vector store or the
\* mode; and on the lexical path two answered queries with the same text and trace
\* have the same hits, up to the number asked for.
C15_IndexReadOnly ==
    [][/\ _INDEX_READY =>
             /\ _INDEX_READY'
             /\ _free_chunks' = _free_chunks
             /\ _vectorstore' = _vectorstore
             /\ _embeddings' = _embeddings
             /\ USE_OPENAI' = USE_OPENAI
             /\ FAISS_OK' = FAISS_OK
       /\ \A p, q \in Procs :
             (/\ reqs'[p].pc = "done" /\ reqs'[q].pc = "done"
              /\ reqs'[p].query = reqs'[q].query /\ reqs'[p].trace = reqs'[q].trace
              /\ ~(USE_OPENAI /\ FAISS_OK)) =>
                 \/ IsPrefix(reqs'[p].hits, reqs'[q].hits)
                 \/ IsPrefix(reqs'[q].hits, reqs'[p].hits)]_vars

\* C15 witness: two queries were answered from the built index, the first without
\* trace, and a document added to the directory since the build is not in the index.
C15_Witness ==
    /\ _INDEX_READY /\ ~USE_OPENAI
    /\ reqs[1].pc = "done" /\ ~reqs[1].trace /\ reqs[1].hits # <<>>
    /\ reqs[2].pc = "done" /\ reqs[2].hits # <<>>
    /\ StripScores(reqs[2].hits) = reqs[1].hits
    /\ _free_chunks # _init_free_mode(_read_all_text_files(files))

\* C16: the sentences picked by the free-mode synthesizer are candidates of the
\* first five hits at most, stand in descending score, hold no two sentences equal
\* after lowercasing, and number at most max_sentences (3, or 4 when the query
\* holds a cue); a candidate left out that duplicates no picked sentence scores
\* no higher than any picked one, and is left out only when the list is full.
C16_GreedySelection ==
    pc \in {"picked", "free_picked"} =>
        LET cap == IF pc = "picked" THEN arg.max_sentences
                   ELSE IF want_more(arg.query) THEN 4 ELSE 3
            qtoks == TokenSet(arg.query)
            Sc(s) == _score_sentence(qtoks, s)
            first == 1..Min(5, Len(arg.hits))
            sents == UNION {Range(_split_sentences(arg.hits[i].snippet)) : i \in first}
            cand == {s \in sents : ScoreLess(ZeroScore, Sc(s))}
            keys == {Lower(out[i]) : i \in DOMAIN out}
        IN  /\ \A i \in DOMAIN out : out[i] \in cand
            /\ \A i, j \in DOMAIN out : i < j => ~ScoreLess(Sc(out[i]), Sc(out[j]))
            /\ \A i, j \in DOMAIN out : i # j => Lower(out[i]) # Lower(out[j])
            /\ Len(out) <= cap
            /\ \A s \in cand : Lower(s) \notin keys =>
                   /\ Len(out) = cap
                   /\ \A i \in DOMAIN out : ~ScoreLess(Sc(out[i]), Sc(s))

\* C16 witness: a query with a cue gets four sentences; the upper-case twin of the
\* best one, found in a later hit, was skipped, candidates that came earlier in hit
\* order were passed over, and one candidate did not fit.
C16_Witness ==
    /\ pc = "free_picked" /\ want_more(arg.query)
    /\ arg.hits = <<HitOf(FiveSnippet), HitOf(TwinSnippet)>>
    /\ Len(out) = 4
    /\ out[1] = <<"a"," ","a",".">>
    /\ <<"A"," ","A",".">> \notin Range(out)
    /\ <<"a"," ","g",".">> \notin Range(out)

\* the chunks of a build of `docs` that starts from an empty collection and ends
Complete(docs) == AppendChunks(<<>>, docs)

\* C17: with the readiness flag set, the chunk collection is the complete chunking
\* of the documents read by the build that set it; a build that raised leaves the
\* flag unset; the free-mode list is always the start of the chunking of the last
\* build's documents, so a build after a failed one starts from an empty list; and
\* a query gets hits only with the flag set, on the lexical path the ones the
\* complete collection gives.
C17_CompleteOrNotReady ==
    /\ _INDEX_READY =>
          /\ stats.last = "built"
          /\ IF USE_OPENAI THEN _vectorstore.docs = Complete(stats.docs)
             ELSE _free_chunks = Complete(stats.docs)
    /\ stats.last = "raised" => ~_INDEX_READY
    /\ ~USE_OPENAI => IsPrefix(_free_chunks, Complete(stats.docs))
    /\ \A p \in Procs :
          reqs[p].pc \in {"awaiting_llm", "done"} =>
              /\ _INDEX_READY
              /\ ~UsesFaiss(_vectorstore) =>
                    \E k \in PassedKs :
                        StripScores(reqs[p].hits)
                            = StripScores(LexicalTopK(Complete(stats.docs), reqs[p].query, k))

\* C17 witness: a build raised part-way and left chunks behind, a later call built
\* the index from the documents then present, and a query was answered from it.
C17_Witness ==
    /\ ~USE_OPENAI /\ stats.left /\ _INDEX_READY
    /\ Len(stats.docs) = 2 /\ _free_chunks = Complete(stats.docs)
    /\ \E p, q \in Procs :
          /\ reqs[p].pc = "raised"
          /\ reqs[q].pc = "done" /\ reqs[q].hits # <<>>

====
